---- MODULE Spec2Model ----
(***************************************************************************)
(* Model of cipher2_fixed_v2.c: a command-line tool that shortens a URL    *)
(* through the TinyURL API and resolves a short URL by following           *)
(* redirects, both through libcurl.                                        *)
(*                                                                         *)
(* C strings are sequences of one-character strings.  A string literal of  *)
(* the program that is only ever copied and printed is a one-element       *)
(* sequence holding the literal.  libcurl, malloc and realloc are the      *)
(* environment: every call the code tests the result of can fail.          *)
(* my_strdup is modelled on the path where its allocation succeeds (the    *)
(* callers never test its result).                                         *)
(***************************************************************************)
EXTENDS Integers, Sequences, FiniteSets, TLC

VARIABLES argv, pc, exit_code, out, err, ginit, gclean, ops,
          long_url, curl, easy_inits, easy_cleanups,
          response, resp_allocs, resp_frees, resp_returned,
          encoded_url, enc_allocs, enc_frees, api_url,
          requests, res, chunks, accepted, cb,
          short_url, effective_url, final_url, response_code,
          result, result_frees

vars == <<argv, pc, exit_code, out, err, ginit, gclean, ops,
          long_url, curl, easy_inits, easy_cleanups,
          response, resp_allocs, resp_frees, resp_returned,
          encoded_url, enc_allocs, enc_frees, api_url,
          requests, res, chunks, accepted, cb,
          short_url, effective_url, final_url, response_code,
          result, result_frees>>

----------------------------------------------------------------------------
(* Bounds of the exploration *)

MaxArgc == 4
MaxPlain == 1
MaxChunks == 2
MaxNmemb == 2

ProgNames == {<<"c", "i", "p", "h", "e", "r">>, <<"a", ".", "o", "u", "t">>}
Flags == {<<"-", "h">>, <<"-", "s">>, <<"-", "u">>, <<"-", "x">>}

----------------------------------------------------------------------------
(* Program constants *)

MaxEncodedLen == 900

ApiUrlSize_Small == MaxEncodedLen
ApiUrlSize == 1024

NULL == <<"NULL">>
NUL == "NUL"
UNINIT == "?"

Min(a, b) == IF a < b THEN a ELSE b

(* "https://tinyurl.com/api-create.php?url=" *)
ApiPrefix ==
  <<"h","t","t","p","s",":","/","/","t","i","n","y","u","r","l",".","c","o","m",
    "/","a","p","i","-","c","r","e","a","t","e",".","p","h","p","?","u","r","l","=">>

ErrAlloc == <<"Error: Memory allocation failed">>
ErrInit == <<"Error: Could not initialize curl">>
ErrEncode == <<"Error: URL encoding failed">>
ErrTooLong == <<"Error: URL too long for API">>
ErrShortenNet == <<"Error: Could not shorten URL (network failure)">>
ErrRedirect == <<"Error: Invalid or failed redirect response">>
ErrUnshortenNet == <<"Error: Could not unshorten URL (network issue)">>

ShortenErrors == {ErrAlloc, ErrInit, ErrEncode, ErrTooLong, ErrShortenNet}
UnshortenErrors == {ErrInit, ErrRedirect, ErrUnshortenNet}

----------------------------------------------------------------------------
(* C strings *)

(* the index of the first NUL of buf (every buffer the program reads as a *)
(* string holds one; without one the string runs to the buffer's end)     *)
FirstNul(buf) ==
  LET nuls == {i \in 1..Len(buf) : buf[i] = NUL}
  IN  IF nuls = {} THEN Len(buf) + 1
      ELSE CHOOSE i \in nuls : \A j \in nuls : i <= j

(* the string a char* to buf denotes: the bytes before the first NUL *)
CStr(buf) == SubSeq(buf, 1, FirstNul(buf) - 1)

strlen(s) == Len(s)

(* lines 8-13, on the path where malloc returns the copy's block *)
my_strdup(s) == s

----------------------------------------------------------------------------
(* curl_easy_escape: RFC 3986 unreserved characters are kept, every other  *)
(* byte becomes %XX with upper-case hexadecimal digits.                    *)

Alnum ==
  {"a","b","c","d","e","f","g","h","i","j","k","l","m","n","o","p","q","r",
   "s","t","u","v","w","x","y","z",
   "A","B","C","D","E","F","G","H","I","J","K","L","M","N","O","P","Q","R",
   "S","T","U","V","W","X","Y","Z",
   "0","1","2","3","4","5","6","7","8","9"}

IsUnreserved(c) == c \in Alnum \cup {"-", ".", "_", "~"}

CharCode(c) ==
  CASE c = " " -> 32
    [] c = "%" -> 37
    [] c = "&" -> 38
    [] c = "/" -> 47
    [] c = ":" -> 58
    [] c = "=" -> 61
    [] c = "?" -> 63

Hex == <<"0","1","2","3","4","5","6","7","8","9","A","B","C","D","E","F">>

EscapeChar(c) ==
  IF IsUnreserved(c) THEN <<c>>
  ELSE <<"%", Hex[(CharCode(c) \div 16) + 1], Hex[(CharCode(c) % 16) + 1]>>

RECURSIVE curl_easy_escape(_)
curl_easy_escape(s) ==
  IF Len(s) = 0 THEN <<>>
  ELSE IF Len(s) = 1 THEN EscapeChar(s[1])
  ELSE LET h == Len(s) \div 2
       IN  curl_easy_escape(SubSeq(s, 1, h)) \o
           curl_easy_escape(SubSeq(s, h + 1, Len(s)))

----------------------------------------------------------------------------
(* shorten_url helpers *)

TooLong_Inclusive(encoded) == strlen(encoded) >= MaxEncodedLen
TooLong(encoded) == strlen(encoded) > MaxEncodedLen

(* snprintf(buf, size, "<prefix>%s", arg): at most size-1 bytes are kept *)
snprintf(size, prefix, arg) ==
  LET full == prefix \o arg
  IN  SubSeq(full, 1, Min(Len(full), size - 1)) \o <<NUL>>

----------------------------------------------------------------------------
(* write_callback and the heap calls it makes *)

realloc(data, n, ok) ==
  IF ~ok THEN NULL
  ELSE [i \in 1..n |-> IF i <= Len(data) THEN data[i] ELSE UNINIT]

(* memcpy(&dst[off], src, n), off counted from 0 *)
memcpy(dst, off, src, n) ==
  [i \in 1..Len(dst) |-> IF i > off /\ i <= off + n THEN src[i - off] ELSE dst[i]]

write_callback_NoTerminator(contents, size, nmemb, mem, ok) ==
  LET realsize == size * nmemb
      ptr == realloc(mem.data, mem.size + realsize + 1, ok)
  IN  IF ptr = NULL
      THEN [mem |-> mem, ret |-> 0]
      ELSE [mem |-> [data |-> memcpy(ptr, mem.size, contents, realsize),
                     size |-> mem.size + realsize],
            ret |-> realsize]

write_callback(contents, size, nmemb, mem, ok) ==
  LET realsize == size * nmemb
      ptr == realloc(mem.data, mem.size + realsize + 1, ok)
  IN  IF ptr = NULL
      THEN [mem |-> mem, ret |-> 0]
      ELSE LET copied == memcpy(ptr, mem.size, contents, realsize)
               newsize == mem.size + realsize
           IN  [mem |-> [data |-> [copied EXCEPT ![newsize + 1] = NUL],
                         size |-> newsize],
                ret |-> realsize]

----------------------------------------------------------------------------
(* unshorten_url helper: the test of line 168 *)

ValidRedirect_Upto400(code, url) == code >= 200 /\ code <= 400 /\ url # NULL
ValidRedirect(code, url) == code >= 200 /\ code < 400 /\ url # NULL

----------------------------------------------------------------------------
(* show_help: the text printed for prog_name, one element per printf        *)
(* argument or literal piece                                                *)

show_help(prog_name) ==
  <<"\n===========================================\n",
    " URL Shortener & Unshortener Tool\n",
    "===========================================\n\n",
    "Usage:\n", " ">> \o prog_name \o
  <<" [option] [url]\n\n",
    "Options:\n",
    " -s <url> Shorten a long URL using TinyURL API\n",
    " -u <url> Unshorten a short URL to reveal its target\n",
    " -h Show this help message\n\n",
    "Examples:\n", " ">> \o prog_name \o
  <<" -s https://example.com\n", " ">> \o prog_name \o
  <<" -u https://tinyurl.com/abc123\n\n",
    "Notes:\n",
    " * Requires internet connectivity and libcurl.\n",
    " * Caller must free() strings returned by -s and -u options.\n",
    " * Compile with: gcc -std=c99 -o ">> \o prog_name \o <<" ">> \o
  prog_name \o <<".c -lcurl\n\n">>

----------------------------------------------------------------------------
(* Inputs *)

(* a URL of p unreserved characters followed by e reserved ones *)
Url(p, e) ==
  [i \in 1..(p + e) |->
     IF i <= p THEN "a" ELSE IF (i - p) % 2 = 1 THEN "/" ELSE ":"]

(* numbers of reserved characters: none, one, and as many as encode to  *)
(* exactly the limit of line 105                                       *)
EscCounts == {0, 1, MaxEncodedLen \div 3}

Urls == {Url(p, e) : p \in 0..MaxPlain, e \in EscCounts}

Args == Flags \cup Urls

(* main reads argv[0..2] only; the arguments after them count, no more *)
ExtraArgs == {<<"-", "x">>, Url(1, 1)}

ArgVectors ==
  UNION {{a \in [1..n -> ProgNames \cup Args \cup ExtraArgs] :
            /\ a[1] \in ProgNames
            /\ \A i \in 2..n : IF i <= 3 THEN a[i] \in Args
                                         ELSE a[i] \in ExtraArgs} :
         n \in 1..MaxArgc}

argc == Len(argv)

(* argv[i] of the C program *)
Arg(i) == argv[i + 1]

StatusCodes == {0, 199, 200, 301, 399, 400, 404, 500}

(* what CURLINFO_EFFECTIVE_URL may hand back for a request to url *)
EffectiveUrls(url) == {NULL, <<>>, url, Url(1, 1)}

TransportErrors == {"CURLE_COULDNT_RESOLVE_HOST", "CURLE_OPERATION_TIMEDOUT"}

(* the element sizes libcurl calls write_callback with (1 in practice) *)
ElemSizes == {1, 2}

(* the contents of the k-th chunk libcurl delivers: n bytes *)
ChunkBytes == <<"1", "2", "3", "4", "5", "6", "7", "8", "9">>
Chunk(k, n) == [i \in 1..n |-> ChunkBytes[((k - 1) % 9) + 1]]

NoCall == [size |-> 0, nmemb |-> 0, ok |-> TRUE, ret |-> 0,
           before |-> [data |-> NULL, size |-> 0], called |-> FALSE]

----------------------------------------------------------------------------
(* State after process start: nothing allocated, nothing printed *)

Init ==
  /\ argv \in ArgVectors
  /\ pc = "main"
  /\ exit_code = -1
  /\ out = <<>>
  /\ err = <<>>
  /\ ginit = 0
  /\ gclean = 0
  /\ ops = <<>>
  /\ long_url = NULL
  /\ curl = NULL
  /\ easy_inits = 0
  /\ easy_cleanups = 0
  /\ response = [data |-> NULL, size |-> 0]
  /\ resp_allocs = 0
  /\ resp_frees = 0
  /\ resp_returned = FALSE
  /\ encoded_url = NULL
  /\ enc_allocs = 0
  /\ enc_frees = 0
  /\ api_url = <<NUL>>
  /\ requests = <<>>
  /\ res = "none"
  /\ chunks = 0
  /\ accepted = <<>>
  /\ cb = NoCall
  /\ short_url = NULL
  /\ effective_url = NULL
  /\ final_url = NULL
  /\ response_code = 0
  /\ result = NULL
  /\ result_frees = 0

mainVars == <<argv, exit_code, out, err, ginit, gclean, ops>>
shortenVars == <<long_url, response, resp_allocs, resp_frees, resp_returned,
                 encoded_url, enc_allocs, enc_frees, api_url, chunks,
                 accepted, cb>>
unshortenVars == <<short_url, effective_url, final_url, response_code>>
curlVars == <<curl, easy_inits, easy_cleanups, requests, res>>

----------------------------------------------------------------------------
(* main, lines 214-248 *)

(* the branch main takes at lines 226-244 *)
Branch(av) ==
  IF av[2] = <<"-", "h">> THEN "help"
  ELSE IF av[2] = <<"-", "s">> /\ Len(av) = 3 THEN "shorten"
  ELSE IF av[2] = <<"-", "u">> /\ Len(av) = 3 THEN "unshorten"
  ELSE "invalid"

(* lines 216-219 *)
MainNoArgs_ExitZero ==
  /\ pc = "main"
  /\ argc < 2
  /\ out' = out \o show_help(Arg(0))
  /\ exit_code' = 0
  /\ pc' = "exit"
  /\ UNCHANGED <<argv, err, ginit, gclean, ops, result, result_frees>>
  /\ UNCHANGED <<shortenVars, unshortenVars, curlVars>>

MainNoArgs ==
  /\ pc = "main"
  /\ argc < 2
  /\ out' = out \o show_help(Arg(0))
  /\ exit_code' = 1
  /\ pc' = "exit"
  /\ UNCHANGED <<argv, err, ginit, gclean, ops, result, result_frees>>
  /\ UNCHANGED <<shortenVars, unshortenVars, curlVars>>

(* lines 221-224 *)
MainGlobalInit ==
  /\ pc = "main"
  /\ ~(argc < 2)
  /\ \E ok \in BOOLEAN :
       IF ok
       THEN /\ ginit' = ginit + 1
            /\ pc' = "dispatch"
            /\ UNCHANGED <<err, exit_code>>
       ELSE /\ err' = err \o <<"Error: Failed to initialize libcurl\n">>
            /\ exit_code' = 1
            /\ pc' = "exit"
            /\ UNCHANGED ginit
  /\ UNCHANGED <<argv, out, gclean, ops, result, result_frees>>
  /\ UNCHANGED <<shortenVars, unshortenVars, curlVars>>

(* lines 226-228 *)
MainHelp ==
  /\ pc = "dispatch"
  /\ Branch(argv) = "help"
  /\ out' = out \o show_help(Arg(0))
  /\ pc' = "global_cleanup"
  /\ UNCHANGED <<argv, exit_code, err, ginit, gclean, ops, result, result_frees>>
  /\ UNCHANGED <<shortenVars, unshortenVars, curlVars>>

(* lines 229-231: the call of shorten_url; its locals of lines 80-84 *)
MainShorten ==
  /\ pc = "dispatch"
  /\ Branch(argv) = "shorten"
  /\ ops' = Append(ops, [op |-> "shorten", ginit |-> ginit, gclean |-> gclean])
  /\ long_url' = Arg(2)
  /\ response' = [data |-> NULL, size |-> 0]
  /\ encoded_url' = NULL
  /\ pc' = "shorten_malloc"
  /\ UNCHANGED <<argv, exit_code, out, err, ginit, gclean, result, result_frees>>
  /\ UNCHANGED <<resp_allocs, resp_frees, resp_returned, enc_allocs, enc_frees,
                 api_url, chunks, accepted, cb>>
  /\ UNCHANGED <<unshortenVars, curlVars>>

(* lines 234-236: the call of unshorten_url *)
MainUnshorten ==
  /\ pc = "dispatch"
  /\ Branch(argv) = "unshorten"
  /\ ops' = Append(ops, [op |-> "unshorten", ginit |-> ginit, gclean |-> gclean])
  /\ short_url' = Arg(2)
  /\ final_url' = NULL
  /\ pc' = "unshorten_easy_init"
  /\ UNCHANGED <<argv, exit_code, out, err, ginit, gclean, result, result_frees>>
  /\ UNCHANGED <<shortenVars, effective_url, response_code, curlVars>>

(* lines 239-244 *)
MainInvalid ==
  /\ pc = "dispatch"
  /\ Branch(argv) = "invalid"
  /\ err' = err \o <<"Error: Invalid command or missing argument.\n">>
  /\ out' = out \o show_help(Arg(0))
  /\ pc' = "global_cleanup"
  /\ UNCHANGED <<argv, exit_code, ginit, gclean, ops, result, result_frees>>
  /\ UNCHANGED <<shortenVars, unshortenVars, curlVars>>

(* the exit status of line 247 *)
ExitStatus_FailOnError(r) == IF r \in ShortenErrors \cup UnshortenErrors THEN 1 ELSE 0
ExitStatus(r) == 0

(* lines 246-247 *)
MainCleanup_Skipped ==
  /\ pc = "global_cleanup"
  /\ gclean' = IF Branch(argv) = "invalid" THEN gclean ELSE gclean + 1
  /\ exit_code' = ExitStatus(result)
  /\ pc' = "exit"
  /\ UNCHANGED <<argv, out, err, ginit, ops, result, result_frees>>
  /\ UNCHANGED <<shortenVars, unshortenVars, curlVars>>

MainCleanup ==
  /\ pc = "global_cleanup"
  /\ gclean' = gclean + 1
  /\ exit_code' = ExitStatus(result)
  /\ pc' = "exit"
  /\ UNCHANGED <<argv, out, err, ginit, ops, result, result_frees>>
  /\ UNCHANGED <<shortenVars, unshortenVars, curlVars>>

----------------------------------------------------------------------------
(* shorten_url, lines 79-130 *)

(* lines 86-90 *)
ShortenMalloc ==
  /\ pc = "shorten_malloc"
  /\ \E ok \in BOOLEAN :
       IF ok
       THEN /\ response' = [data |-> <<NUL>>, size |-> response.size]
            /\ resp_allocs' = resp_allocs + 1
            /\ pc' = "shorten_easy_init"
            /\ UNCHANGED result
       ELSE /\ result' = my_strdup(ErrAlloc)
            /\ pc' = "shortened"
            /\ UNCHANGED <<response, resp_allocs>>
  /\ UNCHANGED <<mainVars, unshortenVars, curlVars, result_frees>>
  /\ UNCHANGED <<long_url, resp_frees, resp_returned, encoded_url, enc_allocs,
                 enc_frees, api_url, chunks, accepted, cb>>

(* lines 92-96 *)
ShortenEasyInit ==
  /\ pc = "shorten_easy_init"
  /\ \E ok \in BOOLEAN :
       IF ok
       THEN /\ curl' = "handle"
            /\ easy_inits' = easy_inits + 1
            /\ pc' = "shorten_escape"
            /\ UNCHANGED <<resp_frees, result>>
       ELSE /\ curl' = NULL
            /\ resp_frees' = resp_frees + 1
            /\ result' = my_strdup(ErrInit)
            /\ pc' = "shortened"
            /\ UNCHANGED easy_inits
  /\ UNCHANGED <<mainVars, unshortenVars, easy_cleanups, requests, res,
                 result_frees>>
  /\ UNCHANGED <<long_url, response, resp_allocs, resp_returned, encoded_url,
                 enc_allocs, enc_frees, api_url, chunks, accepted, cb>>

(* lines 98-119: encode, test the length, build the request URL, set the  *)
(* options                                                                *)
ShortenEscape ==
  /\ pc = "shorten_escape"
  /\ \E ok \in BOOLEAN :
       IF ~ok
       THEN /\ encoded_url' = NULL
            /\ resp_frees' = resp_frees + 1
            /\ easy_cleanups' = easy_cleanups + 1
            /\ result' = my_strdup(ErrEncode)
            /\ pc' = "shortened"
            /\ UNCHANGED <<enc_allocs, enc_frees, api_url>>
       ELSE LET enc == curl_easy_escape(long_url)
            IN  /\ encoded_url' = enc
                /\ enc_allocs' = enc_allocs + 1
                /\ enc_frees' = enc_frees + 1
                /\ IF TooLong(enc)
                   THEN /\ resp_frees' = resp_frees + 1
                        /\ easy_cleanups' = easy_cleanups + 1
                        /\ result' = my_strdup(ErrTooLong)
                        /\ pc' = "shortened"
                        /\ UNCHANGED api_url
                   ELSE /\ api_url' = snprintf(ApiUrlSize, ApiPrefix, enc)
                        /\ pc' = "shorten_perform"
                        /\ UNCHANGED <<resp_frees, easy_cleanups, result>>
  /\ UNCHANGED <<mainVars, unshortenVars, curl, easy_inits, requests, res,
                 result_frees>>
  /\ UNCHANGED <<long_url, response, resp_allocs, resp_returned, chunks,
                 accepted, cb>>

(* line 121: curl_easy_perform starts the GET of CURLOPT_URL *)
ShortenPerform ==
  /\ pc = "shorten_perform"
  /\ requests' = Append(requests, [method |-> "GET", url |-> CStr(api_url)])
  /\ pc' = "shorten_transfer"
  /\ UNCHANGED <<mainVars, shortenVars, unshortenVars, curl, easy_inits,
                 easy_cleanups, res, result, result_frees>>

(* libcurl hands a chunk of the body to write_callback (lines 51-64); a   *)
(* return value other than size*nmemb aborts the transfer                 *)
ShortenWrite ==
  /\ pc = "shorten_transfer"
  /\ chunks < MaxChunks
  /\ \E size \in ElemSizes, nmemb \in 0..MaxNmemb, ok \in BOOLEAN :
       LET contents == Chunk(chunks + 1, size * nmemb)
           r == write_callback(contents, size, nmemb, response, ok)
       IN  /\ response' = r.mem
           /\ cb' = [size |-> size, nmemb |-> nmemb, ok |-> ok, ret |-> r.ret,
                     before |-> response, called |-> TRUE]
           /\ accepted' =
                IF ok
                THEN Append(accepted, [contents |-> contents, size |-> size,
                                       nmemb |-> nmemb])
                ELSE accepted
           /\ chunks' = chunks + 1
           /\ IF r.ret # size * nmemb
              THEN res' = "CURLE_WRITE_ERROR" /\ pc' = "shorten_after"
              ELSE UNCHANGED <<res, pc>>
  /\ UNCHANGED <<mainVars, unshortenVars, curl, easy_inits, easy_cleanups,
                 requests, result, result_frees>>
  /\ UNCHANGED <<long_url, resp_allocs, resp_frees, resp_returned, encoded_url,
                 enc_allocs, enc_frees, api_url>>

(* the transfer ends: complete, or failed at the transport level *)
ShortenTransferEnd ==
  /\ pc = "shorten_transfer"
  /\ \E r \in {"CURLE_OK"} \cup TransportErrors : res' = r
  /\ pc' = "shorten_after"
  /\ UNCHANGED <<mainVars, shortenVars, unshortenVars, curl, easy_inits,
                 easy_cleanups, requests, result, result_frees>>

(* lines 122-129 *)
ShortenReturn_KeepBody ==
  /\ pc = "shorten_after"
  /\ easy_cleanups' = easy_cleanups + 1
  /\ result' = CStr(response.data)
  /\ resp_returned' = TRUE
  /\ UNCHANGED resp_frees
  /\ pc' = "shortened"
  /\ UNCHANGED <<mainVars, unshortenVars, curl, easy_inits, requests, res,
                 result_frees>>
  /\ UNCHANGED <<long_url, response, resp_allocs, encoded_url, enc_allocs,
                 enc_frees, api_url, chunks, accepted, cb>>

ShortenReturn_LeakOnFailure ==
  /\ pc = "shorten_after"
  /\ easy_cleanups' = easy_cleanups + 1
  /\ IF res # "CURLE_OK"
     THEN /\ result' = my_strdup(ErrShortenNet)
          /\ UNCHANGED <<resp_frees, resp_returned>>
     ELSE /\ result' = CStr(response.data)
          /\ resp_returned' = TRUE
          /\ UNCHANGED resp_frees
  /\ pc' = "shortened"
  /\ UNCHANGED <<mainVars, unshortenVars, curl, easy_inits, requests, res,
                 result_frees>>
  /\ UNCHANGED <<long_url, response, resp_allocs, encoded_url, enc_allocs,
                 enc_frees, api_url, chunks, accepted, cb>>

ShortenReturn ==
  /\ pc = "shorten_after"
  /\ easy_cleanups' = easy_cleanups + 1
  /\ IF res # "CURLE_OK"
     THEN /\ resp_frees' = resp_frees + 1
          /\ result' = my_strdup(ErrShortenNet)
          /\ UNCHANGED resp_returned
     ELSE /\ result' = CStr(response.data)
          /\ resp_returned' = TRUE
          /\ UNCHANGED resp_frees
  /\ pc' = "shortened"
  /\ UNCHANGED <<mainVars, unshortenVars, curl, easy_inits, requests, res,
                 result_frees>>
  /\ UNCHANGED <<long_url, response, resp_allocs, encoded_url, enc_allocs,
                 enc_frees, api_url, chunks, accepted, cb>>

(* lines 232-233 *)
MainPrintShortened ==
  /\ pc = "shortened"
  /\ out' = out \o <<"Shortened URL: ">> \o result \o <<"\n">>
  /\ result_frees' = result_frees + 1
  /\ pc' = "global_cleanup"
  /\ UNCHANGED <<argv, exit_code, err, ginit, gclean, ops, result>>
  /\ UNCHANGED <<shortenVars, unshortenVars, curlVars>>

----------------------------------------------------------------------------
(* unshorten_url, lines 146-179 *)

(* lines 151-160 *)
UnshortenEasyInit ==
  /\ pc = "unshorten_easy_init"
  /\ \E ok \in BOOLEAN :
       IF ok
       THEN /\ curl' = "handle"
            /\ easy_inits' = easy_inits + 1
            /\ pc' = "unshorten_perform"
            /\ UNCHANGED result
       ELSE /\ curl' = NULL
            /\ result' = my_strdup(ErrInit)
            /\ pc' = "unshortened"
            /\ UNCHANGED easy_inits
  /\ UNCHANGED <<mainVars, shortenVars, unshortenVars, easy_cleanups, requests,
                 res, result_frees>>

(* line 162: the HEAD request with redirects followed; when it completes, *)
(* libcurl holds the final status and the effective URL                   *)
UnshortenPerform ==
  /\ pc = "unshorten_perform"
  /\ requests' = Append(requests, [method |-> "HEAD", url |-> short_url])
  /\ \E r \in {"CURLE_OK"} \cup TransportErrors :
       /\ res' = r
       /\ IF r = "CURLE_OK"
          THEN \E code \in StatusCodes, url \in EffectiveUrls(short_url) :
                 /\ response_code' = code
                 /\ effective_url' = url
          ELSE UNCHANGED <<response_code, effective_url>>
  /\ pc' = "unshorten_after"
  /\ UNCHANGED <<mainVars, shortenVars, short_url, final_url, curl, easy_inits,
                 easy_cleanups, result, result_frees>>

(* lines 163-178 *)
UnshortenReturn ==
  /\ pc = "unshorten_after"
  /\ final_url' =
       IF res = "CURLE_OK"
       THEN IF ValidRedirect(response_code, effective_url)
            THEN my_strdup(effective_url)
            ELSE my_strdup(ErrRedirect)
       ELSE my_strdup(ErrUnshortenNet)
  /\ easy_cleanups' = easy_cleanups + 1
  /\ result' = final_url'
  /\ pc' = "unshortened"
  /\ UNCHANGED <<mainVars, shortenVars, short_url, effective_url, response_code,
                 curl, easy_inits, requests, res, result_frees>>

(* lines 237-238 *)
MainPrintOriginal ==
  /\ pc = "unshortened"
  /\ out' = out \o <<"Original URL: ">> \o result \o <<"\n">>
  /\ result_frees' = result_frees + 1
  /\ pc' = "global_cleanup"
  /\ UNCHANGED <<argv, exit_code, err, ginit, gclean, ops, result>>
  /\ UNCHANGED <<shortenVars, unshortenVars, curlVars>>

----------------------------------------------------------------------------

Next ==
  \/ MainNoArgs
  \/ MainGlobalInit
  \/ MainHelp
  \/ MainShorten
  \/ MainUnshorten
  \/ MainInvalid
  \/ MainCleanup
  \/ ShortenMalloc
  \/ ShortenEasyInit
  \/ ShortenEscape
  \/ ShortenPerform
  \/ ShortenWrite
  \/ ShortenTransferEnd
  \/ ShortenReturn
  \/ MainPrintShortened
  \/ UnshortenEasyInit
  \/ UnshortenPerform
  \/ UnshortenReturn
  \/ MainPrintOriginal

Spec == Init /\ [][Next]_vars

----------------------------------------------------------------------------
(* Vocabulary of the properties *)

Exited == pc = "exit"

(* shorten_url, resp. unshorten_url, has returned to main *)
ShortenReturned ==
  /\ Len(ops) = 1 /\ ops[1].op = "shorten"
  /\ pc \in {"shortened", "global_cleanup", "exit"}

UnshortenReturned ==
  /\ Len(ops) = 1 /\ ops[1].op = "unshorten"
  /\ pc \in {"unshortened", "global_cleanup", "exit"}

TransportFailed == res \notin {"none", "CURLE_OK"}

RECURSIVE SumRealsize(_)
SumRealsize(calls) ==
  IF calls = <<>> THEN 0
  ELSE calls[1].size * calls[1].nmemb + SumRealsize(Tail(calls))

RECURSIVE Concat(_)
Concat(calls) ==
  IF calls = <<>> THEN <<>>
  ELSE calls[1].contents \o Concat(Tail(calls))

----------------------------------------------------------------------------
C2_OneExactRequest ==
  /\ Len(requests) <= 1
  /\ (ShortenReturned /\ encoded_url # NULL /\ strlen(encoded_url) <= 900) =>
       /\ Len(requests) = 1
       /\ requests[1].method = "GET"
       /\ requests[1].url = ApiPrefix \o curl_easy_escape(Arg(2))
       /\ Len(requests[1].url) + 1 <= 1024

C2_Witness ==
  /\ Exited
  /\ ShortenReturned
  /\ encoded_url # NULL
  /\ strlen(encoded_url) = 900
  /\ Len(requests) = 1
  /\ Len(requests[1].url) = 939

(* the invocations of C3: at least one argument, and neither -h nor       *)
(* -s/-u with exactly one URL                                             *)
InvalidUsage ==
  /\ argc >= 2
  /\ Arg(1) # <<"-", "h">>
  /\ ~(Arg(1) = <<"-", "s">> /\ argc = 3)
  /\ ~(Arg(1) = <<"-", "u">> /\ argc = 3)

(* C3: an invalid invocation ends with a non-zero exit code and, when the *)
(* library initialised, with the error on stderr and the help on stdout.  *)
C3_InvalidExitsNonZero ==
  (Exited /\ InvalidUsage) =>
     /\ exit_code # 0
     /\ ginit = 1 =>
          /\ err = <<"Error: Invalid command or missing argument.\n">>
          /\ out = show_help(Arg(0))

InRedirectRange == response_code >= 200 /\ response_code < 400

C6_HelpAlways ==
  /\ argc < 2 =>
       /\ requests = <<>> /\ ops = <<>>
       /\ Exited => (out = show_help(Arg(0)) /\ exit_code # 0)
  /\ (argc >= 2 /\ Arg(1) = <<"-", "h">>) =>
       /\ requests = <<>> /\ ops = <<>>
       /\ Exited => (out = show_help(Arg(0)) /\ exit_code = 0)

(* C6 amended: the run without arguments prints the help text and exits   *)
(* non-zero; the run with -h prints the same help text and exits zero     *)
(* when curl_global_init succeeded, and prints no help and exits 1 when   *)
(* it failed; neither makes a request.                                    *)
C6_HelpWhenInitialised ==
  /\ argc < 2 =>
       /\ requests = <<>> /\ ops = <<>>
       /\ Exited => (out = show_help(Arg(0)) /\ exit_code # 0)
  /\ (argc >= 2 /\ Arg(1) = <<"-", "h">>) =>
       /\ requests = <<>> /\ ops = <<>>
       /\ Exited =>
            IF ginit = 1
            THEN out = show_help(Arg(0)) /\ exit_code = 0
            ELSE out = <<>> /\ exit_code = 1

C6_Witness ==
  /\ Exited
  /\ argc >= 2
  /\ Arg(1) = <<"-", "h">>
  /\ ginit = 1
  /\ out = show_help(Arg(0))
  /\ exit_code = 0

(* C7: from the empty buffer on, size is the sum of size*nmemb over the   *)
(* calls that succeeded and data is their chunks in arrival order with a  *)
(* NUL at data[size]; a call whose realloc failed returned 0 and left the *)
(* Response as it was, a call that succeeded returned size*nmemb.         *)
C7_BufferInvariant ==
  resp_allocs = 1 =>
     /\ response.size = SumRealsize(accepted)
     /\ response.data = Concat(accepted) \o <<NUL>>
     /\ response.data[response.size + 1] = NUL
     /\ cb.called =>
          IF cb.ok
          THEN cb.ret = cb.size * cb.nmemb
          ELSE cb.ret = 0 /\ response = cb.before

C7_Witness ==
  /\ cb.called
  /\ ~cb.ok
  /\ Len(accepted) = 1
  /\ response.size = 4
  /\ response.data = <<"1", "1", "1", "1", NUL>>

C9_GlobalBracket ==
  /\ Len(ops) <= 1
  /\ \A i \in 1..Len(ops) : ops[i].ginit = 1 /\ ops[i].gclean = 0
  /\ ginit <= 1
  /\ gclean <= ginit
  /\ (easy_inits > 0 \/ requests # <<>>) => ginit = 1
  /\ pc \notin {"main", "exit"} => (ginit = 1 /\ gclean = 0)
  /\ Exited => gclean = ginit

C9_Witness ==
  /\ Exited
  /\ Len(ops) = 1
  /\ requests # <<>>
  /\ ginit = 1
  /\ gclean = 1

====
